---- MODULE Spec2Model ----
(***************************************************************************)
(* The real-time session layer of the chat client: SocketService (the      *)
(* transport session and the event registry), the ChatWindow message list  *)
(* and the ChatDashboard handlers that subscribe to it.                    *)
(***************************************************************************)
EXTENDS Integers, Sequences, FiniteSets, TLC

\* ------------------------------------------------------------------ bounds
MaxTransports == 2
MaxMessages == 2
MaxPushes == 3
MaxChats == 3

\* ------------------------------------------------------------ value domains
NullSock == 0
Chats == {"R1", "R2"}
NoChat == "none"
Users == {"me", "other"}
currentUser == "me"
Tokens == {"tokA"}
SessionData == {"s1", "s2"}
AuthReasons == {"bad token", "expired"}
TransportErrors == {"xhr poll error"}
DisconnectReasons == {"transport close", "ping timeout"}

\* The text typed into the input: sequences of characters, " " is a space.
Inputs == {<<>>, <<" ">>, <<" ", "a", " ">>}

\* A payload is a record; null is the record NullData.
NullData == [null |-> TRUE]
ServerMessages ==
    {[id |-> 7, chat_id |-> c, sender_id |-> u, content |-> <<"a">>, status |-> "none"] :
        c \in Chats, u \in Users}
BlockedPayloads ==
    {[chat_id |-> "R1", reason |-> "profanity detected", blocked_content |-> <<"word1">>],
     [chat_id |-> "R1", reason |-> "spam", blocked_content |-> <<>>]}
OpaquePayloads == {[tag |-> "p1"], [tag |-> "p2"]}

PushEvents ==
    {"new_message", "message_sent", "message_blocked", "user_typing",
     "user_online", "user_offline", "messages_read"}
Events == PushEvents \cup {"socket_error"}

PushData(event) ==
    CASE event = "new_message" -> ServerMessages \cup {NullData}
      [] event = "message_blocked" -> BlockedPayloads \cup {NullData}
      [] OTHER -> OpaquePayloads

\* --------------------------------------------------------------- variables
VARIABLES
    socket,             \* SocketService.socket: NullSock or a transport
    isConnected,        \* SocketService.isConnected
    listeners,          \* SocketService.listeners: event -> Set of callbacks, in insertion order
    transports,         \* every transport io() has created, with the promise of its connect
    emitted,            \* what the last step put on a transport (socket.emit)
    dispatch,           \* what the last step's registry dispatch did
    called,             \* the operation the last step was, where a claim needs it
    chat,               \* ChatWindow: the open chat's id
    messages,           \* ChatWindow: messages
    newMessageContent,  \* ChatWindow: the input
    loadingMessages,    \* ChatWindow: loadingMessages
    error,              \* ChatWindow: error
    blockedMessage,     \* ChatDashboard: blockedMessage
    showAbuseWarning,   \* ChatDashboard: showAbuseWarning
    chats,              \* ChatDashboard: chats, the sidebar's list
    pushes              \* the transport's inbound pushes: arrived, waiting, handled

svcVars == <<socket, isConnected, listeners, transports>>
winVars == <<chat, messages, newMessageContent, loadingMessages, error>>
dashVars == <<blockedMessage, showAbuseWarning, chats>>
vars == <<socket, isConnected, listeners, transports, emitted, dispatch, called,
          chat, messages, newMessageContent, loadingMessages, error,
          blockedMessage, showAbuseWarning, chats, pushes>>

\* ----------------------------------------------------------------- helpers
Range(s) == {s[i] : i \in 1..Len(s)}

IsSpace(ch) == ch = " "

RECURSIVE TrimStart(_)
TrimStart(s) ==
    IF s # <<>> /\ IsSpace(Head(s)) THEN TrimStart(Tail(s)) ELSE s

RECURSIVE TrimEnd(_)
TrimEnd(s) ==
    IF s # <<>> /\ IsSpace(s[Len(s)]) THEN TrimEnd(SubSeq(s, 1, Len(s) - 1)) ELSE s

\* String.prototype.trim
Trim(s) == TrimEnd(TrimStart(s))

\* A JavaScript argument: a string, or undefined (a parameter not passed).
Str(s) == [type |-> "string", val |-> s]
Undefined == [type |-> "undefined", val |-> <<>>]

\* The promise returned by connect: settled at most once.
Pending == [kind |-> "pending", value |-> "none"]
Settle(outcome, kind, value) ==
    IF outcome.kind = "pending" THEN [kind |-> kind, value |-> value] ELSE outcome

NoDispatch == [event |-> "none", data |-> NullData, invoked |-> <<>>, threw |-> {}, escaped |-> FALSE]
NoBlocked == [null |-> TRUE]

EmptyRegistry == [e \in Events |-> <<>>]

\* No push has arrived: none waits in the transport, none was handled.
NoPushes == [arrived |-> 0, inbox |-> <<>>, log |-> <<>>]

Svc == [socket |-> socket, isConnected |-> isConnected,
        listeners |-> listeners, transports |-> transports]

Init ==
    /\ socket = NullSock
    /\ isConnected = FALSE
    /\ listeners = EmptyRegistry
    /\ transports = <<>>
    /\ emitted = <<>>
    /\ dispatch = NoDispatch
    /\ called = ""
    /\ chat = NoChat
    /\ messages = <<>>
    /\ newMessageContent = <<>>
    /\ loadingMessages = TRUE
    /\ error = ""
    /\ blockedMessage = NoBlocked
    /\ showAbuseWarning = FALSE
    /\ chats = <<>>
    /\ pushes = NoPushes


\* ------------------------------------------------- the transport (socket.io)
\* A command put on transport t by socket.emit(event, data).
Cmd(t, event, data) == [t |-> t, event |-> event, data |-> data]

NewTransport(token) ==
    [live |-> TRUE, up |-> FALSE, authPending |-> FALSE, token |-> token, outcome |-> Pending,
     forwards |-> {}]

\* socket.disconnect() of the library: the transport is closed and delivers
\* no further event.
SocketClose(ts, t) ==
    [ts EXCEPT ![t].live = FALSE, ![t].up = FALSE, ![t].authPending = FALSE]

\* resolve / reject of the promise of the connect that created transport t.
SettleAttempt(ts, t, kind, value) ==
    [ts EXCEPT ![t].outcome = Settle(ts[t].outcome, kind, value)]

\* ------------------------------------------------------------ SocketService
\* disconnect(): the service state after it, from the service state S.
disconnectNoClear(S) ==
    IF S.socket # NullSock
    THEN [S EXCEPT !.transports = SocketClose(S.transports, S.socket),
                   !.socket = NullSock, !.isConnected = FALSE]
    ELSE S

disconnectAlwaysClears(S) ==
    IF S.socket # NullSock
    THEN [S EXCEPT !.transports = SocketClose(S.transports, S.socket),
                   !.socket = NullSock, !.isConnected = FALSE,
                   !.listeners = EmptyRegistry]
    ELSE [S EXCEPT !.isConnected = FALSE, !.listeners = EmptyRegistry]

disconnectKeepsFlag(S) ==
    IF S.socket # NullSock
    THEN [S EXCEPT !.transports = SocketClose(S.transports, S.socket),
                   !.socket = NullSock, !.listeners = EmptyRegistry]
    ELSE S

disconnectOf(S) ==
    IF S.socket # NullSock
    THEN [S EXCEPT !.transports = SocketClose(S.transports, S.socket),
                   !.socket = NullSock, !.isConnected = FALSE,
                   !.listeners = EmptyRegistry]
    ELSE S

\* connect(token), lines 34-36: an existing transport is torn down first.
connectTeardownSkipped(S) == S

connectTeardownClearsAlways(S) ==
    [disconnectOf(S) EXCEPT !.listeners = EmptyRegistry]

connectTeardown(S) ==
    IF S.socket # NullSock THEN disconnectOf(S) ELSE S

\* setupDefaultListeners(), lines 99-142: the socket events for which a
\* forwarding handler is installed on the current transport.
setupDefaultListenersPartial(S) ==
    IF S.socket = NullSock THEN {}
    ELSE {"error", "new_message", "message_sent", "message_blocked"}

setupDefaultListeners(S) ==
    IF S.socket = NullSock THEN {}
    ELSE {"error", "new_message", "message_sent", "message_blocked",
          "user_typing", "user_online", "user_offline", "messages_read"}

\* connect(token), lines 38-81: a new transport with the handlers installed.
connectOf(S, token) ==
    LET S1 == connectTeardown(S)
        S2 == [S1 EXCEPT !.transports = Append(S1.transports, NewTransport(token)),
                         !.socket = Len(S1.transports) + 1]
    IN  [S2 EXCEPT !.transports[S2.socket].forwards = setupDefaultListeners(S2)]

\* The 'authenticated' handler, lines 54-57: resolve(data).
authenticatedOf(S, t, data) ==
    [S EXCEPT !.transports = SettleAttempt(S.transports, t, "resolved", data)]

\* The 'auth_error' handler, lines 60-64: disconnect(), then reject.
authErrorNoDisconnect(S, t, reason) ==
    [S EXCEPT !.transports = SettleAttempt(S.transports, t, "rejected", reason)]

authErrorOf(S, t, reason) ==
    LET S1 == disconnectOf(S)
    IN  [S1 EXCEPT !.transports = SettleAttempt(S1.transports, t, "rejected", reason)]

\* The 'connect_error' handler, lines 67-71.
connectErrorResolves(S, t, err) ==
    [S EXCEPT !.isConnected = FALSE,
              !.transports = SettleAttempt(S.transports, t, "resolved", err)]

connectErrorOf(S, t, err) ==
    [S EXCEPT !.isConnected = FALSE,
              !.transports = SettleAttempt(S.transports, t, "rejected", err)]

\* The guard of every command method, and the command it puts on the wire.
commandIgnoresFlag(S, event, chatId) ==
    IF S.socket # NullSock
    THEN <<Cmd(S.socket, event, [chat_id |-> chatId])>>
    ELSE <<>>

commandOf(S, event, chatId) ==
    IF S.socket # NullSock /\ S.isConnected
    THEN <<Cmd(S.socket, event, [chat_id |-> chatId])>>
    ELSE <<>>

\* sendMessage(chatId, content): content.trim() is evaluated before the emit.
sendMessageOf(S, chatId, content) ==
    IF S.socket # NullSock /\ S.isConnected
    THEN IF content.type = "undefined"
         THEN [threw |-> TRUE, out |-> <<>>]
         ELSE [threw |-> FALSE,
               out |-> <<Cmd(S.socket, "send_message",
                             [chat_id |-> chatId, content |-> Trim(content.val)])>>]
    ELSE [threw |-> FALSE, out |-> <<>>]

\* on(event, callback) / off(event, callback): a Set keeps insertion order
\* and holds a callback once.
onAppends(reg, event, callback) ==
    [reg EXCEPT ![event] = Append(reg[event], callback)]

onOf(reg, event, callback) ==
    IF callback \in Range(reg[event]) THEN reg
    ELSE [reg EXCEPT ![event] = Append(reg[event], callback)]

offClearsEvent(reg, event, callback) ==
    [reg EXCEPT ![event] = <<>>]

offOf(reg, event, callback) ==
    [reg EXCEPT ![event] = SelectSeq(reg[event], LAMBDA cb : cb # callback)]

\* ------------------------------------------------------------- subscribers
\* What a dispatch accumulates: the consumers' state and what was invoked.
Acc0(event, data) ==
    [messages |-> messages, blockedMessage |-> blockedMessage,
     showAbuseWarning |-> showAbuseWarning, chats |-> chats,
     out |-> <<>>, reg |-> listeners,
     event |-> event, data |-> data, invoked |-> <<>>, threw |-> {}, escaped |-> FALSE]

\* ChatWindow.handleNewMessageUpdate(message)
handleNewMessageUpdateAlwaysReads(message, acc) ==
    IF message = NullData THEN [acc |-> acc, threw |-> TRUE]
    ELSE IF message.chat_id = chat
    THEN [acc |-> [acc EXCEPT
                     !.messages = Append(acc.messages, message),
                     !.out = acc.out \o commandOf(Svc, "mark_messages_read", chat)],
          threw |-> FALSE]
    ELSE [acc |-> acc, threw |-> FALSE]

handleNewMessageUpdate(message, acc) ==
    IF message = NullData THEN [acc |-> acc, threw |-> TRUE]
    ELSE IF message.chat_id = chat
    THEN [acc |-> [acc EXCEPT
                     !.messages = Append(acc.messages, message),
                     !.out = IF message.sender_id # currentUser
                             THEN acc.out \o commandOf(Svc, "mark_messages_read", chat)
                             ELSE acc.out],
          threw |-> FALSE]
    ELSE [acc |-> acc, threw |-> FALSE]

\* ChatDashboard.handleMessageBlocked(data)
handleMessageBlocked(data, acc) ==
    IF data = NullData THEN [acc |-> acc, threw |-> TRUE]
    ELSE [acc |-> [acc EXCEPT
                     !.blockedMessage = [reason |-> data.reason,
                                         blockedContent |-> data.blocked_content,
                                         chatId |-> data.chat_id],
                     !.showAbuseWarning = TRUE],
          threw |-> FALSE]

\* ChatDashboard.handleNewMessage(message): the chat of the message gets it
\* as last_message and moves to the top of the list; findIndex takes the
\* first chat with that id. A null message makes the updater throw inside
\* React, not inside the callback.
findIndex(list, chatId) ==
    IF \E i \in 1..Len(list) : list[i].id = chatId
    THEN CHOOSE i \in 1..Len(list) :
            list[i].id = chatId /\ \A j \in 1..(i - 1) : list[j].id # chatId
    ELSE 0

updatedChatsKeepsPlace(prevChats, message) ==
    LET chatIndex == findIndex(prevChats, message.chat_id)
    IN  IF chatIndex # 0
        THEN [prevChats EXCEPT ![chatIndex].last_message = message]
        ELSE prevChats

updatedChats(prevChats, message) ==
    LET chatIndex == findIndex(prevChats, message.chat_id)
    IN  IF chatIndex # 0
        THEN <<[prevChats[chatIndex] EXCEPT !.last_message = message]>>
                 \o SubSeq(prevChats, 1, chatIndex - 1)
                 \o SubSeq(prevChats, chatIndex + 1, Len(prevChats))
        ELSE prevChats

handleNewMessage(message, acc) ==
    IF message = NullData THEN [acc |-> acc, threw |-> FALSE]
    ELSE [acc |-> [acc EXCEPT !.chats = updatedChats(acc.chats, message)], threw |-> FALSE]

\* The dashboard's subscriptions (setupSocketListeners): event -> callback.
DashboardHandlers ==
    [e \in PushEvents |->
        CASE e = "new_message" -> "handleNewMessage"
          [] e = "user_typing" -> "handleUserTyping"
          [] e = "user_online" -> "handleUserOnline"
          [] e = "user_offline" -> "handleUserOffline"
          [] e = "message_blocked" -> "handleMessageBlocked"
          [] e = "message_sent" -> "handleMessageSent"
          [] e = "messages_read" -> "handleMessagesRead"]

\* A subscriber that unsubscribes itself when it is invoked:
\* off(event, itself) from within the callback.
unsubscribeSelf(data, acc) ==
    [acc |-> [acc EXCEPT !.reg = offOf(acc.reg, acc.event, "unsubscribeSelf")],
     threw |-> FALSE]

\* callback(data): the callback's effect and whether it threw.
Invoke(callback, data, acc) ==
    CASE callback = "handleNewMessageUpdate" -> handleNewMessageUpdate(data, acc)
      [] callback = "handleMessageBlocked" -> handleMessageBlocked(data, acc)
      [] callback = "unsubscribeSelf" -> unsubscribeSelf(data, acc)
      [] callback = "handleNewMessage" -> handleNewMessage(data, acc)
      [] OTHER -> [acc |-> acc, threw |-> FALSE]

\* emit, lines 237-241: one callback under try/catch.
emitOneNoCatch(callback, data, acc) ==
    LET r == Invoke(callback, data, acc)
    IN  [r.acc EXCEPT !.invoked = Append(acc.invoked, callback),
                      !.threw = IF r.threw THEN acc.threw \cup {callback} ELSE acc.threw,
                      !.escaped = r.threw]

emitOne(callback, data, acc) ==
    LET r == Invoke(callback, data, acc)
    IN  [r.acc EXCEPT !.invoked = Append(acc.invoked, callback),
                      !.threw = IF r.threw THEN acc.threw \cup {callback} ELSE acc.threw]

\* forEach over the Set: an exception that escapes a callback ends the loop.
forEachFirstOnly(callbacks, data, acc) ==
    IF callbacks = <<>> THEN acc ELSE emitOne(Head(callbacks), data, acc)

\* Set.prototype.forEach visits the live Set: of the callbacks not yet
\* visited, those deleted meanwhile are not visited, and callbacks added
\* meanwhile are visited last.
remainingSkipsSibling(rest, before, after) ==
    IF Len(after) < Len(before) /\ rest # <<>> THEN Tail(rest) ELSE rest

remainingOf(rest, before, after) ==
    SelectSeq(rest, LAMBDA cb : cb \in Range(after))
        \o SelectSeq(after, LAMBDA cb : cb \notin Range(before))

RECURSIVE forEach(_, _, _)
forEach(callbacks, data, acc) ==
    IF callbacks = <<>> \/ acc.escaped THEN acc
    ELSE LET acc2 == emitOne(Head(callbacks), data, acc)
         IN  forEach(remainingOf(Tail(callbacks), acc.reg[acc.event], acc2.reg[acc.event]),
                     data, acc2)

\* emit(event, data)
emitOfSkipsDispatch(reg, event, data) == Acc0(event, data)

emitOfDropsPayload(reg, event, data) ==
    forEach(reg[event], NullData, Acc0(event, NullData))

emitOf(reg, event, data) == forEach(reg[event], data, Acc0(event, data))


\* -------------------------------------------------------------- the actions
SetSvc(S) ==
    /\ socket' = S.socket
    /\ isConnected' = S.isConnected
    /\ listeners' = S.listeners
    /\ transports' = S.transports

Observe(out, d) ==
    /\ emitted' = out
    /\ dispatch' = d
    /\ called' = ""
    /\ UNCHANGED pushes

ObserveCall(out, op) ==
    /\ emitted' = out
    /\ dispatch' = NoDispatch
    /\ called' = op
    /\ UNCHANGED pushes

DispatchOf(acc) ==
    [event |-> acc.event, data |-> acc.data, invoked |-> acc.invoked,
     threw |-> acc.threw, escaped |-> acc.escaped]

Live(t) == t \in 1..Len(transports) /\ transports[t].live

\* SocketService.connect(token)
connect(token) ==
    /\ Len(transports) < MaxTransports
    /\ SetSvc(connectOf(Svc, token))
    /\ ObserveCall(<<>>, "connect")
    /\ UNCHANGED <<winVars, dashVars>>

\* SocketService.disconnect()
disconnect ==
    /\ SetSvc(disconnectOf(Svc))
    /\ ObserveCall(<<>>, "disconnect")
    /\ UNCHANGED <<winVars, dashVars>>

\* The 'connect' handler of transport t (lines 45-51).
onConnect(t) ==
    /\ Live(t) /\ ~transports[t].up
    /\ IF socket = NullSock
       THEN \* this.socket.id throws: nothing else runs
            /\ transports' = [transports EXCEPT ![t].up = TRUE]
            /\ UNCHANGED <<socket, isConnected, listeners>>
            /\ Observe(<<>>, NoDispatch)
       ELSE /\ isConnected' = TRUE
            /\ transports' = [transports EXCEPT ![t].up = TRUE,
                                                ![socket].authPending = TRUE]
            /\ UNCHANGED <<socket, listeners>>
            /\ Observe(<<Cmd(socket, "authenticate", [token |-> transports[t].token])>>,
                       NoDispatch)
    /\ UNCHANGED <<winVars, dashVars>>

\* The 'authenticated' handler of transport t (lines 54-57).
onAuthenticated(t, data) ==
    /\ Live(t) /\ transports[t].up /\ transports[t].authPending
    /\ SetSvc(authenticatedOf([Svc EXCEPT !.transports[t].authPending = FALSE], t, data))
    /\ Observe(<<>>, NoDispatch)
    /\ UNCHANGED <<winVars, dashVars>>

\* The 'auth_error' handler of transport t (lines 60-64).
onAuthError(t, reason) ==
    /\ Live(t) /\ transports[t].up /\ transports[t].authPending
    /\ SetSvc(authErrorOf([Svc EXCEPT !.transports[t].authPending = FALSE], t, reason))
    /\ Observe(<<>>, NoDispatch)
    /\ UNCHANGED <<winVars, dashVars>>

\* The 'connect_error' handler of transport t (lines 67-71).
onConnectError(t, err) ==
    /\ Live(t) /\ ~transports[t].up
    /\ SetSvc(connectErrorOf(Svc, t, err))
    /\ Observe(<<>>, NoDispatch)
    /\ UNCHANGED <<winVars, dashVars>>

\* The 'disconnect' handler of transport t (lines 74-77): the reason is
\* logged, the flag is cleared.
onDisconnectStaysConnected(t) ==
    /\ Live(t) /\ transports[t].up
    /\ transports' = [transports EXCEPT ![t].up = FALSE, ![t].authPending = FALSE]
    /\ UNCHANGED <<socket, isConnected, listeners>>
    /\ Observe(<<>>, NoDispatch)
    /\ UNCHANGED <<winVars, dashVars>>

onDisconnect(t) ==
    /\ Live(t) /\ transports[t].up
    /\ isConnected' = FALSE
    /\ transports' = [transports EXCEPT ![t].up = FALSE, ![t].authPending = FALSE]
    /\ UNCHANGED <<socket, listeners>>
    /\ Observe(<<>>, NoDispatch)
    /\ UNCHANGED <<winVars, dashVars>>

\* The forwarding handler that setupDefaultListeners installed on transport
\* t for event: it calls emit(event, data), which runs every callback
\* before it returns.
Forward(t, event, data) ==
    /\ Live(t) /\ transports[t].up
    /\ event \in transports[t].forwards
    /\ LET acc == emitOf(listeners, event, data)
       IN  /\ Len(acc.messages) <= MaxMessages
           /\ messages' = acc.messages
           /\ blockedMessage' = acc.blockedMessage
           /\ showAbuseWarning' = acc.showAbuseWarning
           /\ chats' = acc.chats
           /\ listeners' = acc.reg
           /\ emitted' = acc.out
           /\ dispatch' = DispatchOf(acc)
           /\ called' = ""
    /\ UNCHANGED <<socket, isConnected, transports, chat, newMessageContent,
                   loadingMessages, error>>

\* A server push on transport t, handled as it arrives.
onPush(t, event, data) ==
    /\ Forward(t, event, data)
    /\ UNCHANGED pushes

\* joinChat, leaveChat, startTyping, stopTyping, markMessagesAsRead
command(event, chatId) ==
    /\ Observe(commandOf(Svc, event, chatId), NoDispatch)
    /\ UNCHANGED <<svcVars, winVars, dashVars>>

joinChat(chatId) == command("join_chat", chatId)
leaveChat(chatId) == command("leave_chat", chatId)
startTyping(chatId) == command("typing_start", chatId)
stopTyping(chatId) == command("typing_stop", chatId)
markMessagesAsRead(chatId) == command("mark_messages_read", chatId)

\* SocketService.sendMessage(chatId, content), called with both arguments.
sendMessage(chatId, content) ==
    /\ Observe(sendMessageOf(Svc, chatId, Str(content)).out, NoDispatch)
    /\ UNCHANGED <<svcVars, winVars, dashVars>>

\* ChatDashboard.setupSocketListeners
RECURSIVE onAll(_, _)
onAll(reg, events) ==
    IF events = {} THEN reg
    ELSE LET e == CHOOSE x \in events : TRUE
         IN  onAll(onOf(reg, e, DashboardHandlers[e]), events \ {e})

RECURSIVE offAll(_, _)
offAll(reg, events) ==
    IF events = {} THEN reg
    ELSE LET e == CHOOSE x \in events : TRUE
         IN  offAll(offOf(reg, e, DashboardHandlers[e]), events \ {e})

setupSocketListeners ==
    /\ listeners' = onAll(listeners, PushEvents)
    /\ Observe(<<>>, NoDispatch)
    /\ UNCHANGED <<socket, isConnected, transports, winVars, dashVars>>

\* ChatDashboard.cleanupSocketListeners
cleanupSocketListeners ==
    /\ listeners' = offAll(listeners, PushEvents)
    /\ Observe(<<>>, NoDispatch)
    /\ UNCHANGED <<socket, isConnected, transports, winVars, dashVars>>

\* ChatDashboard.handleCloseAbuseWarning
handleCloseAbuseWarning ==
    /\ showAbuseWarning
    /\ showAbuseWarning' = FALSE
    /\ blockedMessage' = NoBlocked
    /\ Observe(<<>>, NoDispatch)
    /\ UNCHANGED <<svcVars, winVars, chats>>

\* ChatWindow mounted for chat c: useState initial values, and the effect of
\* lines 44-49 (fetchMessages starts, new_message is subscribed).
windowMount(c) ==
    /\ chat = NoChat
    /\ chat' = c
    /\ messages' = <<>>
    /\ newMessageContent' = <<>>
    /\ loadingMessages' = TRUE
    /\ error' = ""
    /\ listeners' = onOf(listeners, "new_message", "handleNewMessageUpdate")
    /\ Observe(<<>>, NoDispatch)
    /\ UNCHANGED <<socket, isConnected, transports, dashVars>>

\* ChatWindow unmounted: the effect's cleanup of lines 51-54.
windowUnmount ==
    /\ chat # NoChat
    /\ chat' = NoChat
    /\ messages' = <<>>
    /\ newMessageContent' = <<>>
    /\ loadingMessages' = TRUE
    /\ error' = ""
    /\ listeners' = offOf(listeners, "new_message", "handleNewMessageUpdate")
    /\ ObserveCall(<<>>, "windowUnmount")
    /\ UNCHANGED <<socket, isConnected, transports, dashVars>>

\* The form is rendered only when the window is neither loading nor in error
\* (lines 100-125).
FormShown == chat # NoChat /\ ~loadingMessages /\ error = ""

\* fetchMessages completes: the history of the REST layer, or a failure.
History == <<>>

fetchMessagesDone(ok) ==
    /\ chat # NoChat /\ loadingMessages
    /\ loadingMessages' = FALSE
    /\ IF ok THEN messages' = History /\ UNCHANGED error
             ELSE error' = "Failed to load messages." /\ UNCHANGED messages
    /\ Observe(<<>>, NoDispatch)
    /\ UNCHANGED <<svcVars, chat, newMessageContent, dashVars>>

\* The Retry button (lines 116-121): fetchMessages starts again.
fetchMessagesRetry ==
    /\ chat # NoChat /\ ~loadingMessages /\ error # ""
    /\ loadingMessages' = TRUE
    /\ error' = ""
    /\ Observe(<<>>, NoDispatch)
    /\ UNCHANGED <<svcVars, chat, messages, newMessageContent, dashVars>>

\* The input's onChange (line 227).
setNewMessageContent(text) ==
    /\ FormShown
    /\ newMessageContent' = text
    /\ Observe(<<>>, NoDispatch)
    /\ UNCHANGED <<svcVars, chat, messages, loadingMessages, error, dashVars>>

\* Line 64: !newMessageContent.trim()
isBlankUntrimmed(text) == text = <<>>

isBlank(text) == Trim(text) = <<>>

\* The optimistic record of lines 66-73.
messagePayload(text) ==
    [id |-> 0, chat_id |-> chat, sender_id |-> currentUser,
     content |-> Trim(text), status |-> "sending"]

\* Line 82: socketService.sendMessage(messagePayload), one argument.
sendCall(S, payload) == sendMessageOf(S, payload, Undefined)

\* ChatWindow.handleSendMessage
handleSendMessage ==
    /\ FormShown
    /\ IF isBlank(newMessageContent)
       THEN /\ ObserveCall(<<>>, "handleSendMessage")
            /\ UNCHANGED <<svcVars, winVars, dashVars>>
       ELSE LET payload == messagePayload(newMessageContent)
                r == sendCall(Svc, payload)
            IN  /\ Len(messages) < MaxMessages
                /\ messages' = Append(messages,
                                  IF r.threw THEN [payload EXCEPT !.status = "failed"]
                                  ELSE payload)
                /\ newMessageContent' = <<>>
                /\ error' = IF r.threw THEN "Failed to send message." ELSE error
                /\ ObserveCall(r.out, "handleSendMessage")
                /\ UNCHANGED <<svcVars, chat, loadingMessages, dashVars>>

\* setSelectedChat(chat), line 138.
selectToggles(selected, c) == IF selected = c THEN NoChat ELSE c

selectOf(selected, c) == c

\* ChatDashboard.handleChatSelect(chat) for the chat with id c. The window
\* stays mounted; its effect of lines 44-55 runs again when the chat object
\* changed (another chat, or a new object for the same chat).
handleChatSelect(c, changed) ==
    /\ chat' = selectOf(chat, c)
    /\ IF c # chat \/ changed
       THEN /\ listeners' = onOf(offOf(listeners, "new_message", "handleNewMessageUpdate"),
                                 "new_message", "handleNewMessageUpdate")
            /\ loadingMessages' = TRUE
            /\ error' = ""
       ELSE UNCHANGED <<listeners, loadingMessages, error>>
    /\ ObserveCall(commandOf(Svc, "join_chat", c) \o commandOf(Svc, "mark_messages_read", c),
                   "handleChatSelect")
    /\ UNCHANGED <<socket, isConnected, transports, messages, newMessageContent, dashVars>>

\* The chats of the dashboard's list: an entry is a chat object with its id
\* and its last_message.
DashChatIds == Chats \cup {"R3"}
NoMessage == [none |-> TRUE]
ChatOf(c) == [id |-> c, last_message |-> NoMessage]

\* What chatService.getUserChats() answers: a list of different chats.
UserChatLists ==
    {<<>>} \cup {<<ChatOf(c)>> : c \in DashChatIds}
           \cup {<<ChatOf(p[1]), ChatOf(p[2])>> :
                    p \in {q \in DashChatIds \X DashChatIds : q[1] # q[2]}}

\* ChatDashboard.initializeDashboard, once getUserChats has answered: the
\* list is stored and its first chat is selected, which mounts the window.
initializeDashboard(userChats) ==
    /\ chats = <<>> /\ chat = NoChat
    /\ chats' = userChats
    /\ IF userChats # <<>>
       THEN /\ chat' = userChats[1].id
            /\ listeners' = onOf(listeners, "new_message", "handleNewMessageUpdate")
            /\ loadingMessages' = TRUE
            /\ error' = ""
       ELSE UNCHANGED <<chat, listeners, loadingMessages, error>>
    /\ ObserveCall(<<>>, "initializeDashboard")
    /\ UNCHANGED <<socket, isConnected, transports, messages, newMessageContent,
                   blockedMessage, showAbuseWarning>>

\* ChatDashboard.handleNewChatCreated(newChat): the chat is put in front of
\* the list and selected, and its room is joined. The window's effect of
\* lines 44-55 runs again for the new chat object.
handleNewChatCreated(c) ==
    /\ Len(chats) < MaxChats
    /\ chats' = <<ChatOf(c)>> \o chats
    /\ chat' = c
    /\ listeners' = onOf(offOf(listeners, "new_message", "handleNewMessageUpdate"),
                         "new_message", "handleNewMessageUpdate")
    /\ loadingMessages' = TRUE
    /\ error' = ""
    /\ ObserveCall(commandOf(Svc, "join_chat", c), "handleNewChatCreated")
    /\ UNCHANGED <<socket, isConnected, transports, messages, newMessageContent,
                   blockedMessage, showAbuseWarning>>

\* The session layer: SocketService, its transports, the dashboard's
\* subscriptions and every server push.
Next ==
    \/ \E token \in Tokens : connect(token)
    \/ disconnect
    \/ \E t \in 1..MaxTransports : onConnect(t)
    \/ \E t \in 1..MaxTransports, data \in SessionData : onAuthenticated(t, data)
    \/ \E t \in 1..MaxTransports, reason \in AuthReasons : onAuthError(t, reason)
    \/ \E t \in 1..MaxTransports, err \in TransportErrors : onConnectError(t, err)
    \/ \E t \in 1..MaxTransports : onDisconnect(t)
    \/ \E t \in 1..MaxTransports, event \in PushEvents :
          \E data \in PushData(event) : onPush(t, event, data)
    \/ \E c \in Chats : joinChat(c)
    \/ \E c \in Chats : leaveChat(c)
    \/ \E c \in Chats : startTyping(c)
    \/ \E c \in Chats : stopTyping(c)
    \/ \E c \in Chats : markMessagesAsRead(c)
    \/ \E c \in Chats, text \in Inputs : sendMessage(c, text)
    \/ setupSocketListeners
    \/ cleanupSocketListeners

Spec == Init /\ [][Next]_vars

\* The chat window and the dashboard on one session: the session is either
\* the one of Init or one whose connect has been acknowledged.
AuthenticatedSession ==
    /\ socket = 1
    /\ isConnected = TRUE
    /\ transports = <<[live |-> TRUE, up |-> TRUE, authPending |-> FALSE,
                       token |-> "tokA", outcome |-> [kind |-> "resolved", value |-> "s1"],
                       forwards |-> PushEvents \cup {"error"}]>>

InitChat ==
    /\ \/ socket = NullSock /\ isConnected = FALSE /\ transports = <<>>
       \/ AuthenticatedSession
    /\ listeners = EmptyRegistry
    /\ emitted = <<>>
    /\ dispatch = NoDispatch
    /\ called = ""
    /\ chat = NoChat
    /\ messages = <<>>
    /\ newMessageContent = <<>>
    /\ loadingMessages = TRUE
    /\ error = ""
    /\ blockedMessage = NoBlocked
    /\ showAbuseWarning = FALSE
    /\ chats = <<>>
    /\ pushes = NoPushes

MessagePushEvents == {"new_message", "message_sent", "message_blocked"}

NextChat ==
    \/ disconnect
    \/ onConnect(1)
    \/ \E data \in SessionData : onAuthenticated(1, data)
    \/ \E reason \in AuthReasons : onAuthError(1, reason)
    \/ onDisconnect(1)
    \/ \E event \in MessagePushEvents :
          \E data \in PushData(event) : onPush(1, event, data)
    \/ setupSocketListeners
    \/ cleanupSocketListeners
    \/ handleCloseAbuseWarning
    \/ \E c \in Chats : windowMount(c)
    \/ windowUnmount
    \/ \E ok \in BOOLEAN : fetchMessagesDone(ok)
    \/ fetchMessagesRetry
    \/ \E text \in Inputs : setNewMessageContent(text)
    \/ handleSendMessage

SpecChat == InitChat /\ [][NextChat]_vars

\* The dashboard's chat selection with the window it drives, on one session.
NextSelect ==
    \/ disconnect
    \/ onConnect(1)
    \/ \E data \in SessionData : onAuthenticated(1, data)
    \/ \E reason \in AuthReasons : onAuthError(1, reason)
    \/ onDisconnect(1)
    \/ \E data \in ServerMessages : onPush(1, "new_message", data)
    \/ \E c \in Chats : windowMount(c)
    \/ windowUnmount
    \/ \E c \in Chats, changed \in BOOLEAN : handleChatSelect(c, changed)
    \/ \E ok \in BOOLEAN : fetchMessagesDone(ok)
    \/ fetchMessagesRetry
    \/ \E text \in Inputs : setNewMessageContent(text)
    \/ handleSendMessage

SpecSelect == InitChat /\ [][NextSelect]_vars

\* The dashboard with its chat list on an acknowledged session.
InitDash ==
    /\ AuthenticatedSession
    /\ listeners = EmptyRegistry
    /\ emitted = <<>>
    /\ dispatch = NoDispatch
    /\ called = ""
    /\ chat = NoChat
    /\ messages = <<>>
    /\ newMessageContent = <<>>
    /\ loadingMessages = TRUE
    /\ error = ""
    /\ blockedMessage = NoBlocked
    /\ showAbuseWarning = FALSE
    /\ chats = <<>>
    /\ pushes = NoPushes

\* The new_message pushes of the dashboard's run: those of the other user.
DashMessages == {m \in ServerMessages : m.sender_id # currentUser} \cup {NullData}

NextDash ==
    \/ setupSocketListeners
    \/ cleanupSocketListeners
    \/ \E userChats \in UserChatLists : initializeDashboard(userChats)
    \/ \E c \in DashChatIds : handleNewChatCreated(c)
    \/ \E data \in DashMessages : onPush(1, "new_message", data)

SpecDash == InitDash /\ [][NextDash]_vars

\* The registry under subscribers of any kind: on, off and the dispatch of
\* pushes, on one session.
RegistryEvents == {"user_typing", "messages_read"}
Subscribers == {"unsubscribeSelf", "handleUserTyping", "handleMessagesRead"}

\* SocketService.on(event, callback)
on(event, callback) ==
    /\ listeners' = onOf(listeners, event, callback)
    /\ ObserveCall(<<>>, IF callback \in Range(listeners[event]) THEN "on again" ELSE "on")
    /\ UNCHANGED <<socket, isConnected, transports, winVars, dashVars>>

\* SocketService.off(event, callback)
off(event, callback) ==
    /\ listeners' = offOf(listeners, event, callback)
    /\ ObserveCall(<<>>, "off")
    /\ UNCHANGED <<socket, isConnected, transports, winVars, dashVars>>

NextRegistry ==
    \/ \E event \in RegistryEvents, callback \in Subscribers : on(event, callback)
    \/ \E event \in RegistryEvents, callback \in Subscribers : off(event, callback)
    \/ \E event \in RegistryEvents : \E data \in PushData(event) : onPush(1, event, data)

SpecRegistry == InitChat /\ [][NextRegistry]_vars

\* Pushes that arrive faster than they are handled: a push arrives on
\* transport 1 and waits until its forwarding handler runs.
arrive(event, data) ==
    /\ pushes.arrived < MaxPushes
    /\ Live(1) /\ transports[1].up /\ event \in transports[1].forwards
    /\ pushes' = [pushes EXCEPT
                    !.arrived = @ + 1,
                    !.inbox = Append(@, [n |-> pushes.arrived + 1,
                                         event |-> event, data |-> data])]
    /\ emitted' = <<>>
    /\ dispatch' = NoDispatch
    /\ called' = ""
    /\ UNCHANGED <<svcVars, winVars, dashVars>>

\* The transport hands the oldest waiting push to its forwarding handler,
\* which runs to its end; the invocations are appended to the log.
deliver ==
    /\ pushes.inbox # <<>>
    /\ LET p == Head(pushes.inbox)
       IN  /\ Forward(1, p.event, p.data)
           /\ pushes' = [pushes EXCEPT
                           !.inbox = Tail(@),
                           !.log = @ \o [i \in 1..Len(dispatch'.invoked) |->
                                            [n |-> p.n, callback |-> dispatch'.invoked[i]]]]

QueueSubscribers == {"unsubscribeSelf", "handleUserTyping"}

NextQueue ==
    \/ \E callback \in QueueSubscribers : on("user_typing", callback)
    \/ \E callback \in QueueSubscribers : off("user_typing", callback)
    \/ \E event \in RegistryEvents : \E data \in PushData(event) : arrive(event, data)
    \/ deliver

SpecQueue == InitChat /\ [][NextQueue]_vars

\* The session InitChat starts from is one the session layer reaches.
AuthenticatedSessionUnreached == ~AuthenticatedSession


\* The server keeps pushing and the event loop keeps running.
ServerPush ==
    \E event \in MessagePushEvents : \E data \in PushData(event) : onPush(1, event, data)

FairSpecChat == SpecChat /\ WF_vars(NextChat) /\ WF_vars(ServerPush)

\* ------------------------------------------------------------------ claims
Terminal == {"confirmed", "blocked", "failed"}

\* A record of the message list that handleSendMessage created and that is
\* still in its first state.
PendingAt(i) == i \in 1..Len(messages) /\ messages[i].id = 0 /\ messages[i].status = "sending"

\* Room, sender and content of a record and of a new_message payload agree.
Correlates(m, p) ==
    m.chat_id = p.chat_id /\ m.sender_id = p.sender_id /\ m.content = p.content

\* The session has a transport whose connect was acknowledged.
Authenticated ==
    /\ socket # NullSock /\ isConnected
    /\ transports[socket].up /\ ~transports[socket].authPending
    /\ transports[socket].outcome.kind = "resolved"

\* C1: every sent message eventually reaches confirmed, blocked or failed
\* (unless the window's list is discarded first), and a message in one of
\* these states keeps it.
C1_TerminalReached ==
    /\ \A i \in 1..MaxMessages :
          PendingAt(i) ~> (i > Len(messages) \/ messages[i].status \in Terminal)
    /\ [][\A i \in 1..Len(messages) :
            (messages[i].status \in Terminal /\ i <= Len(messages'))
                => messages'[i].status = messages[i].status]_vars

\* C2: at most one transport is live, and it is the one the service holds;
\* a transport the service no longer holds is closed, so none of its
\* handlers runs again.
C2_OneLiveTransport ==
    \A t \in 1..Len(transports) : transports[t].live => socket = t

\* C2 witness: connect was called twice, the first transport (whose connect
\* had been acknowledged) is closed and the second is the live one.
C2_SecondConnect ==
    /\ Len(transports) = 2
    /\ ~transports[1].live /\ transports[1].outcome.kind = "resolved"
    /\ transports[2].live /\ socket = 2

\* C3: a dispatch invokes every subscriber of the event, whichever of them
\* throw, and no exception leaves emit.
C3_HandlerIsolation ==
    dispatch.event # "none" =>
        /\ dispatch.invoked = listeners[dispatch.event]
        /\ ~dispatch.escaped

\* C3 witness: two subscribers, the first threw and the second was invoked.
C3_FirstThrew ==
    /\ Len(dispatch.invoked) = 2
    /\ dispatch.invoked[1] \in dispatch.threw

\* C4 as stated: after disconnect() returns the registry holds no handlers.
C4_RegistryEmptyAfterDisconnect ==
    called = "disconnect" => listeners = EmptyRegistry

\* C4 amended: a disconnect() called while a transport exists empties the
\* registry, and a push invokes only the handlers registered when it arrives.
C4_TeardownClears ==
    [][/\ (called' = "disconnect" /\ socket # NullSock)
            => (listeners' = EmptyRegistry /\ socket' = NullSock)
       /\ dispatch'.event # "none"
            => dispatch'.invoked = listeners[dispatch'.event]]_vars

\* C4 witness: after a teardown and a new connect, a push arrived and
\* invoked no handler.
C4_LatePushIgnored ==
    /\ Len(transports) = 2 /\ ~transports[1].live
    /\ dispatch.event = "message_blocked" /\ dispatch.invoked = <<>>
    /\ listeners = EmptyRegistry

\* C5: a new_message push that correlates with a pending record turns that
\* record into the confirmed one, with the server's id, and adds no record.
C5_PendingConfirmed ==
    [][\A d \in ServerMessages :
          (/\ onPush(1, "new_message", d)
           /\ "handleNewMessageUpdate" \in Range(listeners["new_message"])
           /\ \E i \in 1..Len(messages) : PendingAt(i) /\ Correlates(messages[i], d))
          => /\ Len(messages') = Len(messages)
             /\ \E i \in 1..Len(messages) :
                   /\ PendingAt(i) /\ Correlates(messages[i], d)
                   /\ messages'[i].status = "confirmed"
                   /\ messages'[i].id = d.id]_vars

\* C6: a message_blocked push for the room of a pending message turns that
\* message into a blocked one.
C6_PendingBlocked ==
    [][\A d \in BlockedPayloads :
          (/\ onPush(1, "message_blocked", d)
           /\ "handleMessageBlocked" \in Range(listeners["message_blocked"])
           /\ \E i \in 1..Len(messages) : PendingAt(i) /\ messages[i].chat_id = d.chat_id)
          => \E i \in 1..Len(messages) :
                /\ PendingAt(i) /\ messages[i].chat_id = d.chat_id
                /\ messages'[i].status = "blocked"]_vars

\* C7: a send of non-blank content on an authenticated session puts exactly
\* one send_message on the transport, with the room id and the trimmed content.
C7_SendEmitsOne ==
    [][(handleSendMessage /\ Trim(newMessageContent) # <<>> /\ Authenticated)
          => emitted' = <<Cmd(socket, "send_message",
                              [chat_id |-> chat, content |-> Trim(newMessageContent)])>>]_vars

\* C8: a send of empty or whitespace-only content changes neither the
\* message list, nor the input, nor the service, and emits nothing.
C8_BlankSendIsNoop ==
    [][(handleSendMessage /\ Trim(newMessageContent) = <<>>)
          => /\ UNCHANGED <<messages, newMessageContent, error, svcVars>>
             /\ emitted' = <<>>]_vars

\* C8 witness: a whitespace-only input has just been submitted.
C8_BlankSubmitted ==
    /\ called = "handleSendMessage"
    /\ newMessageContent = <<" ">>
    /\ socket # NullSock /\ isConnected


Rejected(value) == [kind |-> "rejected", value |-> value]
Resolved(value) == [kind |-> "resolved", value |-> value]

\* No transport: every command method emits nothing, and only connect
\* gives the service a transport again.
ClosedUntilConnect ==
    /\ socket' = NullSock => emitted' = <<>>
    /\ (socket = NullSock /\ socket' # NullSock)
          => (Len(transports') = Len(transports) + 1 /\ socket' = Len(transports'))

\* C9 as stated: an auth_error makes the attempt fail with the server's
\* reason and closes the transport; nothing is emitted until the next connect.
C9_AuthErrorRejectsWithReason ==
    [][/\ \A t \in 1..MaxTransports, reason \in AuthReasons :
            onAuthError(t, reason) =>
                /\ transports'[t].outcome = Rejected(reason)
                /\ ~transports'[t].live /\ socket' = NullSock /\ ~isConnected'
       /\ ClosedUntilConnect]_vars

\* C9 amended: the attempt fails with the server's reason if it is still
\* pending and keeps its outcome otherwise; the transport is closed and
\* nothing is emitted until the next connect.
C9_AuthErrorCloses ==
    [][/\ \A t \in 1..MaxTransports, reason \in AuthReasons :
            onAuthError(t, reason) =>
                /\ transports'[t].outcome =
                       IF transports[t].outcome = Pending THEN Rejected(reason)
                       ELSE transports[t].outcome
                /\ ~transports'[t].live /\ socket' = NullSock /\ ~isConnected'
       /\ ClosedUntilConnect]_vars

\* C9 witness: the only attempt was rejected with the server's reason and
\* the service holds no transport.
C9_RejectedAndClosed ==
    /\ Len(transports) = 1
    /\ transports[1].outcome = Rejected("expired") /\ ~transports[1].live
    /\ socket = NullSock /\ ~isConnected

\* C10: the outcome of a connect attempt is set once; it becomes a success
\* only by an authenticated push, with the pushed metadata, and a failure
\* only by an auth_error or a connect_error, with its reason; each of the
\* three settles a pending attempt.
C10_OneOutcome ==
    [][\A t \in 1..Len(transports) :
          LET o == transports[t].outcome
              o2 == transports'[t].outcome
          IN  /\ o # Pending => o2 = o
              /\ (o = Pending /\ o2.kind = "resolved")
                    => \E data \in SessionData : onAuthenticated(t, data) /\ o2.value = data
              /\ (o = Pending /\ o2.kind = "rejected")
                    => \/ \E reason \in AuthReasons : onAuthError(t, reason) /\ o2.value = reason
                       \/ \E err \in TransportErrors : onConnectError(t, err) /\ o2.value = err
              /\ o = Pending =>
                    /\ \A data \in SessionData : onAuthenticated(t, data) => o2 = Resolved(data)
                    /\ \A reason \in AuthReasons : onAuthError(t, reason) => o2 = Rejected(reason)
                    /\ \A err \in TransportErrors : onConnectError(t, err) => o2 = Rejected(err)]_vars

\* C10 witness: an attempt that failed on a connection error was later
\* acknowledged by the server and is still reported as failed.
C10_FailedThenAcknowledged ==
    \E t \in 1..Len(transports) :
        /\ transports[t].live /\ transports[t].up /\ ~transports[t].authPending
        /\ transports[t].outcome.kind = "rejected"


\* C11: a send on a session that is not authenticated puts nothing on the
\* transport.
C11_UnauthenticatedSendRejected ==
    [][\A c \in Chats, text \in Inputs :
          (sendMessage(c, text) /\ ~Authenticated) => emitted' = <<>>]_vars

\* C12: joinChat and leaveChat put exactly one command with the room id on
\* the transport when the session is authenticated, and nothing otherwise.
C12_JoinLeaveOnlyAuthenticated ==
    [][\A c \in Chats :
          /\ joinChat(c) =>
                emitted' = IF Authenticated
                           THEN <<Cmd(socket, "join_chat", [chat_id |-> c])>>
                           ELSE <<>>
          /\ leaveChat(c) =>
                emitted' = IF Authenticated
                           THEN <<Cmd(socket, "leave_chat", [chat_id |-> c])>>
                           ELSE <<>>]_vars

\* C13: a message sent while the session is not connected is recorded as
\* failed.
C13_NotConnectedSendFails ==
    [][(/\ handleSendMessage
        /\ ~isBlank(newMessageContent)
        /\ ~(socket # NullSock /\ isConnected))
          => /\ Len(messages') = Len(messages) + 1
             /\ messages'[Len(messages')].status = "failed"]_vars

C15_LossSurfaced ==
    [][\A t \in 1..MaxTransports :
          onDisconnect(t) =>
              /\ ~isConnected'
              /\ dispatch'.event # "none"
              /\ \E reason \in DisconnectReasons : dispatch'.data = [reason |-> reason]]_vars

\* The attempt of transport t was settled and the transport is down: it had
\* a connection error, or was connected and lost the connection.
LostConnection(t) ==
    Live(t) /\ ~transports[t].up /\ transports[t].outcome # Pending

AuthenticateOf(t) == Cmd(t, "authenticate", [token |-> transports[t].token])

\* C16 as stated: a transport that had a connection error or lost its
\* connection does not connect again, so the session stays not connected
\* and authenticate is not sent again until connect is called.
C16_NoReconnect ==
    [][\A t \in 1..MaxTransports : LostConnection(t) => ~onConnect(t)]_vars

\* C16 amended: a loss or a connection error leaves the session not
\* connected and sends nothing; the session becomes connected again only
\* when its transport reports 'connect', and authenticate is sent only then,
\* with the token of the connect call.
C16_ConnectedOnlyOnTransportConnect ==
    [][/\ \A t \in 1..MaxTransports :
            (onDisconnect(t) \/ \E err \in TransportErrors : onConnectError(t, err))
                => (~isConnected' /\ emitted' = <<>>)
       /\ (~isConnected /\ isConnected') => (socket # NullSock /\ onConnect(socket))
       /\ (\E i \in 1..Len(emitted') : emitted'[i].event = "authenticate")
            => (/\ socket # NullSock /\ onConnect(socket)
                /\ emitted' = <<AuthenticateOf(socket)>>)]_vars

\* C16 witness: a session that had been authenticated lost its connection,
\* the transport connected again and authenticate was sent again.
C16_Reauthenticating ==
    \E t \in 1..Len(transports) :
        /\ socket = t /\ isConnected
        /\ transports[t].outcome.kind = "resolved"
        /\ transports[t].up /\ transports[t].authPending
        /\ emitted = <<AuthenticateOf(t)>>

\* C17: disconnect() without a transport changes neither the socket, nor
\* the connection flag, nor the registry, and a second disconnect() adds
\* nothing to the first.
C17_DisconnectIdempotent ==
    /\ [][(disconnect /\ socket = NullSock) => UNCHANGED svcVars]_vars
    /\ [](disconnectOf(disconnectOf(Svc)) = disconnectOf(Svc))

\* C17 witness: disconnect() was called after the transport had been closed
\* by an earlier disconnect(), with handlers in the registry.
C17_DisconnectedAgain ==
    /\ called = "disconnect"
    /\ Len(transports) = 1 /\ ~transports[1].live
    /\ socket = NullSock /\ listeners # EmptyRegistry

\* C18: a dispatch invokes each handler registered under its event once,
\* with its payload, and no handler that is registered only under another
\* event.
C18_DispatchInvokesRegistered ==
    dispatch.event # "none" =>
        /\ Range(dispatch.invoked) = Range(listeners[dispatch.event])
        /\ Len(dispatch.invoked) = Cardinality(Range(dispatch.invoked))
        /\ \A e \in Events \ {dispatch.event} :
              \A cb \in Range(listeners[e]) \ Range(listeners[dispatch.event]) :
                  cb \notin Range(dispatch.invoked)
        /\ ("handleMessageBlocked" \in Range(dispatch.invoked) /\ dispatch.data # NullData)
              => /\ blockedMessage.reason = dispatch.data.reason
                 /\ blockedMessage.blockedContent = dispatch.data.blocked_content
        /\ (/\ "handleNewMessageUpdate" \in Range(dispatch.invoked)
            /\ dispatch.data # NullData
            /\ dispatch.data.chat_id = chat)
              => messages[Len(messages)] = dispatch.data

\* C18 witness: two handlers of new_message were invoked with a message,
\* neither threw, and a handler of another event was left alone.
C18_BothInvoked ==
    /\ dispatch.event = "new_message" /\ dispatch.data # NullData
    /\ Len(dispatch.invoked) = 2 /\ dispatch.threw = {}
    /\ listeners["message_blocked"] # <<>>

\* Every callback the consumers subscribe.
Callbacks == {DashboardHandlers[e] : e \in PushEvents} \cup {"handleNewMessageUpdate"}

\* The position of x in a sequence that holds it once.
IndexOf(seq, x) == CHOOSE i \in 1..Len(seq) : seq[i] = x

\* r is the registry reg with the one registration (event, callback) removed:
\* the other events are untouched, and the event keeps its other handlers in
\* their order.
RemovedOnly(reg, r, event, callback) ==
    /\ \A e \in Events \ {event} : r[e] = reg[e]
    /\ Range(r[event]) = Range(reg[event]) \ {callback}
    /\ Len(r[event]) = Cardinality(Range(r[event]))
    /\ \A i, j \in 1..Len(r[event]) :
          i < j => IndexOf(reg[event], r[event][i]) < IndexOf(reg[event], r[event][j])
    /\ callback \notin Range(reg[event]) => r = reg

\* C19: off(event, callback) removes that one registration and nothing
\* else, and changes nothing when the callback is not registered; so do the
\* window's and the dashboard's unsubscriptions.
C19_OffRemovesExactlyThat ==
    /\ [](\A e \in Events, cb \in Callbacks :
            RemovedOnly(listeners, offOf(listeners, e, cb), e, cb))
    /\ [][/\ windowUnmount =>
              RemovedOnly(listeners, listeners', "new_message", "handleNewMessageUpdate")
          /\ cleanupSocketListeners =>
              \A e \in Events :
                  /\ Range(listeners'[e]) = Range(listeners[e]) \ {DashboardHandlers[e2] : e2 \in PushEvents \cap {e}}
                  /\ Len(listeners'[e]) = Cardinality(Range(listeners'[e]))]_vars

\* C19 witness: the window unsubscribed its handler and the dashboard's
\* handlers, the one of new_message included, are still registered.
C19_WindowUnsubscribed ==
    /\ called = "windowUnmount"
    /\ listeners = onAll(EmptyRegistry, PushEvents)

\* The pending records of room c.
PendingIn(c) == {i \in 1..Len(messages) : PendingAt(i) /\ messages[i].chat_id = c}

\* Record i alone takes the outcome; every other record is as it was.
OutcomeAt(i, status) ==
    /\ i <= Len(messages') /\ messages'[i].status = status
    /\ \A j \in (1..Len(messages)) \ {i} : j <= Len(messages') /\ messages'[j] = messages[j]

\* C20: with two messages pending in a room, a confirmation or a block
\* pushed for one of them settles one pending record and leaves the other
\* as it was.
C20_OutcomePerMessage ==
    [][/\ \A d \in BlockedPayloads :
            (/\ onPush(1, "message_blocked", d)
             /\ "handleMessageBlocked" \in Range(listeners["message_blocked"])
             /\ Cardinality(PendingIn(d.chat_id)) = 2)
                => \E i \in PendingIn(d.chat_id) : OutcomeAt(i, "blocked")
       /\ \A d \in ServerMessages :
            (/\ onPush(1, "new_message", d)
             /\ "handleNewMessageUpdate" \in Range(listeners["new_message"])
             /\ Cardinality({i \in PendingIn(d.chat_id) : Correlates(messages[i], d)}) = 2)
                => \E i \in PendingIn(d.chat_id) :
                      Correlates(messages[i], d) /\ OutcomeAt(i, "confirmed")]_vars

\* C21: a transport whose connect attempt has reported success forwards
\* every push of the vocabulary, and such a push is dispatched through the
\* registry with its payload.
C21_ForwardingInstalled ==
    /\ [](\A t \in 1..Len(transports) :
            (transports[t].live /\ transports[t].outcome.kind = "resolved")
                => PushEvents \subseteq transports[t].forwards)
    /\ [][dispatch'.event # "none" =>
            /\ socket # NullSock /\ dispatch'.event \in transports[socket].forwards
            /\ dispatch'.data \in PushData(dispatch'.event)
            /\ Range(dispatch'.invoked) = Range(listeners[dispatch'.event])]_vars

\* C21 witness: after the acknowledgment of its connect, a transport
\* delivered a messages_read push to a subscriber.
C21_PushAfterAcknowledgment ==
    \E t \in 1..Len(transports) :
        /\ transports[t].live /\ transports[t].outcome.kind = "resolved"
        /\ dispatch.event = "messages_read"
        /\ dispatch.invoked = <<"handleMessagesRead">>

\* C22: in a dispatch in which a handler unsubscribes itself, every handler
\* registered for the event is invoked once, in the registry's order, and
\* only the registration of that handler is gone afterwards.
C22_SelfUnsubscribeKeepsSiblings ==
    [][\A e \in RegistryEvents :
          (dispatch'.event = e /\ "unsubscribeSelf" \in Range(listeners[e]))
              => /\ dispatch'.invoked = listeners[e]
                 /\ listeners'[e] = SelectSeq(listeners[e], LAMBDA cb : cb # "unsubscribeSelf")
                 /\ \A e2 \in Events \ {e} : listeners'[e2] = listeners[e2]]_vars

\* C22 witness: of three handlers the second unsubscribed itself during the
\* dispatch; all three were invoked and the other two are still registered.
C22_MiddleUnsubscribed ==
    /\ dispatch.event \in RegistryEvents
    /\ Len(dispatch.invoked) = 3 /\ dispatch.invoked[2] = "unsubscribeSelf"
    /\ listeners[dispatch.event] = <<dispatch.invoked[1], dispatch.invoked[3]>>

\* The number of registrations of callback cb in a list of callbacks.
Count(seq, cb) == Cardinality({i \in 1..Len(seq) : seq[i] = cb})

\* C28: a handler subscribed again to an event is registered once; a
\* dispatch invokes it once, and one off removes it.
C28_SubscribeTwiceRegistersOnce ==
    /\ [](\A e \in RegistryEvents, cb \in Subscribers :
            LET twice == onOf(onOf(listeners, e, cb), e, cb)
            IN  /\ Count(listeners[e], cb) <= 1
                /\ Count(twice[e], cb) = 1
                /\ Count(offOf(twice, e, cb)[e], cb) = 0)
    /\ [](\A cb \in Subscribers : Count(dispatch.invoked, cb) <= 1)
    /\ [][\A e \in RegistryEvents, cb \in Subscribers :
            (on(e, cb) /\ cb \in Range(listeners[e])) => listeners' = listeners]_vars

\* C28 witness: a handler that was already registered has been subscribed
\* again, next to another handler of the event.
C28_SubscribedAgain ==
    /\ called = "on again"
    /\ \E e \in RegistryEvents : Len(listeners[e]) = 2

\* C23: the invocations of the handlers follow the arrival order of the
\* pushes and those of two pushes are not interleaved: no handler of a
\* waiting push has been invoked, and the handling of a push invokes every
\* subscriber of its event before the next push is handled.
C23_PushesDoNotInterleave ==
    /\ [](\A i, j \in 1..Len(pushes.log) :
            i < j => pushes.log[i].n <= pushes.log[j].n)
    /\ [](\A i \in 1..Len(pushes.log), k \in 1..Len(pushes.inbox) :
            pushes.log[i].n < pushes.inbox[k].n)
    /\ [](\A k, l \in 1..Len(pushes.inbox) :
            k < l => pushes.inbox[k].n < pushes.inbox[l].n)
    /\ [][deliver =>
            LET p == Head(pushes.inbox)
                subscribers == listeners[p.event]
            IN  pushes'.log = pushes.log \o
                    [i \in 1..Len(subscribers) |-> [n |-> p.n, callback |-> subscribers[i]]]]_vars

\* C23 witness: two pushes with two subscribers each were handled while a
\* third push was waiting.
C23_TwoHandledOneWaiting ==
    /\ Len(pushes.log) = 4
    /\ pushes.log[2].n = 1 /\ pushes.log[3].n = 2
    /\ Len(pushes.inbox) = 1

\* The pushes the session layer forwards without tracking anything.
PresenceEvents == {"user_typing", "user_online", "user_offline", "messages_read"}

\* C24: a user_typing, user_online, user_offline or messages_read push is
\* dispatched to the subscribers of its event with the payload it arrived
\* with, and the step leaves socket, isConnected and the registry as they were.
C24_PresencePushesVerbatim ==
    [][dispatch'.event \in PresenceEvents =>
          /\ \E t \in 1..Len(transports), data \in PushData(dispatch'.event) :
                 onPush(t, dispatch'.event, data) /\ dispatch'.data = data
          /\ dispatch'.invoked = listeners[dispatch'.event]
          /\ UNCHANGED <<socket, isConnected, listeners>>]_vars

\* C24 witness: a user_typing push reached its subscriber with its payload.
C24_TypingDelivered ==
    /\ dispatch.event = "user_typing"
    /\ dispatch.data = [tag |-> "p2"]
    /\ dispatch.invoked # <<>>
    /\ isConnected /\ socket # NullSock

\* The events the command methods put on the transport.
CommandEvents ==
    {"join_chat", "leave_chat", "typing_start", "typing_stop", "mark_messages_read"}

\* C25: isConnected implies that a socket is present; while the socket is
\* null the service is not connected and no command method (sendMessage
\* included) puts anything on a transport.
C25_ConnectedImpliesSocket ==
    /\ [](isConnected => socket # NullSock)
    /\ [](socket = NullSock =>
            /\ ~isConnected
            /\ \A c \in Chats, e \in CommandEvents : commandOf(Svc, e, c) = <<>>)
    /\ [][\A c \in Chats :
            /\ \A e \in CommandEvents :
                  (socket = NullSock /\ command(e, c)) => emitted' = <<>>
            /\ \A text \in Inputs :
                  (socket = NullSock /\ sendMessage(c, text)) => emitted' = <<>>]_vars

\* C25 witness: a session that was acknowledged has been disconnected; the
\* socket is null and the service is not connected.
C25_DisconnectedAfterSession ==
    /\ called = "disconnect"
    /\ socket = NullSock /\ ~isConnected
    /\ Len(transports) >= 1
    /\ transports[1].outcome.kind = "resolved" /\ ~transports[1].live

\* C26: connect() leaves the registry as it was when no transport exists
\* at the call and empties it when one exists.
C26_ConnectAndRegistry ==
    [][\A token \in Tokens :
          connect(token) =>
              /\ socket = NullSock => listeners' = listeners
              /\ socket # NullSock => listeners' = EmptyRegistry]_vars

\* C26 witness: the dashboard's subscriptions, made before the first
\* connect, are in the registry right after it.
C26_SubscriptionsSurviveFirstConnect ==
    /\ called = "connect"
    /\ Len(transports) = 1 /\ socket = 1
    /\ listeners = onAll(EmptyRegistry, DOMAIN DashboardHandlers)
    /\ listeners # EmptyRegistry

\* C27: the 'disconnect' and 'connect_error' handlers of a transport clear
\* isConnected and leave socket and the registry as they were; while
\* isConnected is false no command method (sendMessage included) puts
\* anything on a transport.
C27_TransportLossClearsFlagOnly ==
    [][/\ \A t \in 1..MaxTransports :
            (onDisconnect(t) \/ \E err \in TransportErrors : onConnectError(t, err))
                => /\ ~isConnected'
                   /\ socket' = socket
                   /\ listeners' = listeners
       /\ \A c \in Chats :
            /\ \A e \in CommandEvents :
                  (~isConnected /\ command(e, c)) => emitted' = <<>>
            /\ \A text \in Inputs :
                  (~isConnected /\ sendMessage(c, text)) => emitted' = <<>>]_vars

\* C27 witness: the transport of an acknowledged session went down; the
\* socket and the subscriptions are still there and the flag is false.
C27_DownWithSocketAndSubscriptions ==
    /\ socket # NullSock /\ ~isConnected
    /\ listeners # EmptyRegistry
    /\ transports[socket].live /\ ~transports[socket].up
    /\ transports[socket].outcome.kind = "resolved"
    /\ emitted = <<>>

\* The list without its i-th entry, and how often a chat id occurs in it.
ChatsWithout(list, i) == SubSeq(list, 1, i - 1) \o SubSeq(list, i + 1, Len(list))
IdCount(list, c) == Cardinality({j \in 1..Len(list) : list[j].id = c})

\* C29: the dashboard's handling of a new_message keeps the chat list a
\* permutation of itself: the length and the occurrences of every chat id
\* are unchanged; the first chat with the message's chat_id is at the front
\* with the message as last_message and the other chats follow in the
\* order they had; the list is unchanged when no chat has that id.
C29_ChatListPermuted ==
    [][(/\ dispatch'.event = "new_message"
        /\ "handleNewMessage" \in Range(dispatch'.invoked)
        /\ dispatch'.data # NullData)
          => LET m == dispatch'.data
                 matching == {j \in 1..Len(chats) : chats[j].id = m.chat_id}
             IN  /\ Len(chats') = Len(chats)
                 /\ \A c \in DashChatIds : IdCount(chats', c) = IdCount(chats, c)
                 /\ matching = {} => chats' = chats
                 /\ matching # {} =>
                       LET i == CHOOSE j \in matching : \A k \in matching : j <= k
                       IN  /\ chats'[1].id = m.chat_id
                           /\ chats'[1].last_message = m
                           /\ ChatsWithout(chats', 1) = ChatsWithout(chats, i)]_vars

\* C29 witness: in a list of three chats the chat of the message is at the
\* front with the message as last_message, ahead of a chat that had been
\* moved to the front by an earlier message.
C29_MovedToFront ==
    /\ dispatch.event = "new_message"
    /\ "handleNewMessage" \in Range(dispatch.invoked)
    /\ dispatch.data # NullData
    /\ Len(chats) = 3
    /\ chats[1].id = dispatch.data.chat_id /\ chats[1].last_message = dispatch.data
    /\ chats[2].id # chats[1].id /\ chats[2].last_message # NoMessage
    /\ chats[3].id = "R3"

\* C30: when the window's handler is subscribed, a new_message push is
\* appended as it is to the end of the message list if and only if its
\* chat_id is the open chat's id, the entries before it stay as they were,
\* and mark_messages_read is sent for the open chat if and only if the
\* message was appended and its sender is not the current user.
C30_WindowAppendsAndMarksRead ==
    [][\A d \in ServerMessages :
          (/\ dispatch'.event = "new_message" /\ dispatch'.data = d
           /\ "handleNewMessageUpdate" \in Range(listeners["new_message"])
           /\ onPush(1, "new_message", d))
             => /\ messages' = IF d.chat_id = chat THEN Append(messages, d) ELSE messages
                /\ emitted' = IF d.chat_id = chat /\ d.sender_id # currentUser
                              THEN <<Cmd(socket, "mark_messages_read", [chat_id |-> chat])>>
                              ELSE <<>>]_vars

\* C30 witness: a message of the other user for the open chat is the last
\* entry of the list and mark_messages_read was sent for the chat.
C30_AppendedAndMarkedRead ==
    /\ dispatch.event = "new_message"
    /\ "handleNewMessageUpdate" \in Range(dispatch.invoked)
    /\ dispatch.data # NullData
    /\ dispatch.data.chat_id = chat /\ dispatch.data.sender_id # currentUser
    /\ Len(messages) = 2 /\ messages[2] = dispatch.data
    /\ emitted = <<Cmd(socket, "mark_messages_read", [chat_id |-> chat])>>

====
